---------------------------- MODULE Spec2Model ----------------------------
(***************************************************************************)
(* A model of geomstats/geometry/product_manifold.py: the heterogeneous    *)
(* product ProductManifold with its per-factor dispatcher                  *)
(* _iterate_over_manifolds, and the homogeneous power NFoldManifold.       *)
(*                                                                         *)
(* Arrays are records [type |-> "array", shape, data] with data the        *)
(* row-major flattening of the array, as in the numpy backend.  A numeric  *)
(* coordinate is modelled by its deviation from the factor it is a         *)
(* coordinate of: 0 is a coordinate exactly on the factor, k > 0 one that  *)
(* is off by k.  A factor's belongs accepts a row whose deviations are at  *)
(* most atol, its projection and to_tangent bring deviations to 0.         *)
(***************************************************************************)
EXTENDS Integers, Sequences, FiniteSets, TLC

\* ------------------------------------------------------------------ bounds
\* Largest trailing width of a product's shape and of a base's shape.
MaxWidth == 4
\* Largest number of factors of a product and of copies of a power.
MaxFactors == 2
\* Number of points in a batch, and largest number of samples drawn at once.
MaxBatch == 2
\* Largest worker count n_jobs.
MaxJobs == 2

\* ------------------------------------------------------- sequence helpers
RECURSIVE SumSeq(_)
SumSeq(s) == IF s = <<>> THEN 0 ELSE Head(s) + SumSeq(Tail(s))

RECURSIVE Prod(_)
Prod(s) == IF s = <<>> THEN 1 ELSE Head(s) * Prod(Tail(s))

RECURSIVE Flatten(_)
Flatten(ss) == IF ss = <<>> THEN <<>> ELSE Head(ss) \o Flatten(Tail(ss))

Min(a, b) == IF a < b THEN a ELSE b

\* s[:-1]
ButLast(s) == IF s = <<>> THEN <<>> ELSE SubSeq(s, 1, Len(s) - 1)

\* s[-1]
Last(s) == s[Len(s)]

\* The sequences over S of length lo..hi.
SeqsOf(S, lo, hi) == UNION {[1..n -> S] : n \in lo..hi}

\* ------------------------------------------------------------------ values
Array(shape, data) == [type |-> "array", shape |-> shape, data |-> data]
PyFloat(v) == [type |-> "float", val |-> v]
PyInt(v) == [type |-> "int", val |-> v]
Error(exc) == [type |-> "error", exc |-> exc]
None == [type |-> "none"]

IsArray(v) == v.type = "array"
IsError(v) == v.type = "error"

\* isinstance(value, float): a Python int is not a float.
IsFloat(value) == value.type = "float"

\* The first error of a sequence of values, None when there is none.
FirstError(vs) ==
    IF \E i \in 1..Len(vs) : IsError(vs[i])
    THEN vs[CHOOSE i \in 1..Len(vs) :
                IsError(vs[i]) /\ \A j \in 1..(i - 1) : ~IsError(vs[j])]
    ELSE None

\* ------------------------------------------------ the numeric backend, gs
\* Row-major index arithmetic, 0-based.
RECURSIVE Unravel(_, _)
Unravel(k, shape) ==
    IF shape = <<>> THEN <<>>
    ELSE LET p == Prod(Tail(shape))
         IN  <<k \div p>> \o Unravel(k % p, Tail(shape))

RECURSIVE Ravel(_, _)
Ravel(idx, shape) ==
    IF shape = <<>> THEN 0
    ELSE idx[1] * Prod(Tail(shape)) + Ravel(Tail(idx), Tail(shape))

\* idx without its (0-based) position a.
DropAt(s, a) == SubSeq(s, 1, a) \o SubSeq(s, a + 2, Len(s))

\* s with x inserted at (0-based) position a.
InsertAt(s, a, x) == SubSeq(s, 1, a) \o <<x>> \o SubSeq(s, a + 1, Len(s))

\* Row r (0-based) of the trailing axis of an array.
Row(arr, r) ==
    LET w == Last(arr.shape)
    IN  SubSeq(arr.data, r * w + 1, r * w + w)

NRows(arr) == Prod(ButLast(arr.shape))

\* gs.cumsum of a list.
gs_cumsum(s) == [i \in 1..Len(s) |-> SumSeq(SubSeq(s, 1, i))]

\* arr[..., lo:hi]; a slice bound beyond the width is clamped to it.
SliceLast(arr, lo, hi) ==
    LET w == Last(arr.shape)
        l == Min(lo, w)
        h == IF Min(hi, w) < l THEN l ELSE Min(hi, w)
    IN  Array(ButLast(arr.shape) \o <<h - l>>,
              Flatten([r \in 1..NRows(arr) |->
                          SubSeq(arr.data, (r - 1) * w + l + 1, (r - 1) * w + h)]))

\* gs.split(value, indices, axis=-1): Len(indices) + 1 pieces
\* [0:i1], [i1:i2], ..., [ik:].  Splitting what is no array raises.
gs_split(value, indices) ==
    IF ~IsArray(value) \/ value.shape = <<>> THEN <<Error("TypeError")>>
    ELSE LET w == Last(value.shape)
             lo == <<0>> \o indices
             hi == indices \o <<w>>
         IN  [j \in 1..(Len(indices) + 1) |-> SliceLast(value, lo[j], hi[j])]

\* gs.stack(arrays, axis): a new axis of length Len(arrays) at `axis`.
gs_stack(arrays, axis) ==
    IF FirstError(arrays) # None THEN FirstError(arrays)
    ELSE IF \E i \in 1..Len(arrays) : arrays[i].shape # arrays[1].shape
    THEN Error("ValueError")
    ELSE LET s == arrays[1].shape
             a == IF axis < 0 THEN axis + Len(s) + 1 ELSE axis
         IN  IF a < 0 \/ a > Len(s) THEN Error("AxisError")
             ELSE LET rshape == InsertAt(s, a, Len(arrays))
                  IN  Array(rshape,
                            [k \in 1..Prod(rshape) |->
                                LET idx == Unravel(k - 1, rshape)
                                IN  arrays[idx[a + 1] + 1].data[
                                        Ravel(DropAt(idx, a), s) + 1]])

\* gs.concatenate(arrays, axis=-1)
gs_concatenate(arrays) ==
    IF FirstError(arrays) # None THEN FirstError(arrays)
    ELSE IF \E i \in 1..Len(arrays) :
                \/ arrays[i].shape = <<>>
                \/ ButLast(arrays[i].shape) # ButLast(arrays[1].shape)
    THEN Error("ValueError")
    ELSE Array(ButLast(arrays[1].shape)
                   \o <<SumSeq([i \in 1..Len(arrays) |-> Last(arrays[i].shape)])>>,
               Flatten([r \in 1..NRows(arrays[1]) |->
                           Flatten([i \in 1..Len(arrays) |-> Row(arrays[i], r - 1)])]))

\* gs.all(arr, axis=-1)
gs_all(arr) ==
    IF IsError(arr) THEN arr
    ELSE IF arr.shape = <<>> THEN Error("AxisError")
    ELSE Array(ButLast(arr.shape),
               [r \in 1..NRows(arr) |->
                   \A c \in 1..Last(arr.shape) : Row(arr, r - 1)[c]])

\* gs.reshape(arr, newshape), newshape holding at most one -1.
gs_reshape(arr, newshape) ==
    IF IsError(arr) THEN arr
    ELSE LET known == Prod([i \in 1..Len(newshape) |->
                               IF newshape[i] = -1 THEN 1 ELSE newshape[i]])
             size == Len(arr.data)
             full == [i \in 1..Len(newshape) |->
                         IF newshape[i] = -1 THEN size \div known ELSE newshape[i]]
         IN  IF known = 0 \/ Prod(full) # size THEN Error("ValueError")
             ELSE Array(full, arr.data)

\* gs.squeeze(arr): every axis of length 1 is removed.
gs_squeeze(arr) ==
    IF IsError(arr) THEN arr
    ELSE Array(SelectSeq(arr.shape, LAMBDA n : n # 1), arr.data)

\* gs.squeeze(arr, axis=0)
gs_squeeze0(arr) ==
    IF IsError(arr) THEN arr
    ELSE IF arr.shape = <<>> \/ arr.shape[1] # 1 THEN Error("ValueError")
    ELSE Array(Tail(arr.shape), arr.data)

\* The shape two shapes broadcast to, <<-1>> when they do not broadcast.
gs_broadcast_shape(s1, s2) ==
    LET n == IF Len(s1) > Len(s2) THEN Len(s1) ELSE Len(s2)
        p1 == [i \in 1..(n - Len(s1)) |-> 1] \o s1
        p2 == [i \in 1..(n - Len(s2)) |-> 1] \o s2
    IN  IF \A i \in 1..n : p1[i] = p2[i] \/ p1[i] = 1 \/ p2[i] = 1
        THEN [i \in 1..n |-> IF p1[i] = 1 THEN p2[i] ELSE p1[i]]
        ELSE <<-1>>

\* arr repeated along its missing and length-1 axes up to shape target.
gs_broadcast_to(arr, target) ==
    LET lead == Len(target) - Len(arr.shape)
    IN  Array(target,
              [k \in 1..Prod(target) |->
                  LET idx == Unravel(k - 1, target)
                      own == [i \in 1..Len(arr.shape) |->
                                 IF arr.shape[i] = 1 THEN 0 ELSE idx[lead + i]]
                  IN  arr.data[Ravel(own, arr.shape) + 1]])

\* gs.broadcast_arrays(a, b)
gs_broadcast_arrays(a, b) ==
    LET target == gs_broadcast_shape(a.shape, b.shape)
    IN  IF target = <<-1>> THEN <<Error("ValueError"), Error("ValueError")>>
        ELSE <<gs_broadcast_to(a, target), gs_broadcast_to(b, target)>>

\* point[..., i, :], i 0-based.
TakeFactor(point, i) ==
    IF Len(point.shape) < 2 \/ i >= point.shape[Len(point.shape) - 1]
    THEN Error("IndexError")
    ELSE LET s == point.shape
             n == s[Len(s) - 1]
             w == Last(s)
             b == Prod(SubSeq(s, 1, Len(s) - 2))
         IN  Array(SubSeq(s, 1, Len(s) - 2) \o <<w>>,
                   Flatten([r \in 1..b |->
                               SubSeq(point.data, ((r - 1) * n + i) * w + 1,
                                      ((r - 1) * n + i) * w + w)]))

\* ---------------------------------------------------------------- factors
\* A factor space as the composites see it: dim, shape and whether it has a
\* projection method.  Euclidean-like spaces use dim coordinates,
\* sphere-like spaces are embedded and use dim + 1.
Euclidean(d) == [dim |-> d, shape |-> <<d>>, projection |-> TRUE]
Hypersphere(d) == [dim |-> d, shape |-> <<d + 1>>, projection |-> TRUE]
Plain(d) == [dim |-> d, shape |-> <<d>>, projection |-> FALSE]
NoManifold == [dim |-> 0, shape |-> <<>>, projection |-> FALSE]

\* The factors products are built from, and the bases of powers.
Factors ==
    {Euclidean(d) : d \in 1..MaxWidth} \cup {Hypersphere(d) : d \in 1..(MaxWidth - 1)}
Bases == Factors \cup {Plain(d) : d \in 1..MaxWidth}

\* The lists of factors whose points, concatenated, have at most MaxWidth
\* coordinates.
FactorLists ==
    {ms \in SeqsOf(Factors, 1, MaxFactors) :
        SumSeq([i \in 1..Len(ms) |-> ms[i].shape[1]]) <= MaxWidth}

\* Coordinates: 0 is on the factor and canonical, -1 on the factor but not
\* canonical, k > 0 off the factor by k.
Coords == {-1, 0, 1}
Deviation(c) == IF c < 0 THEN 0 ELSE c


\* Per row: the row has the factor's width and deviates by at most atol.
RowsWithin(manifold, arr, atol) ==
    IF arr.shape = <<>> THEN Error("IndexError")
    ELSE Array(ButLast(arr.shape),
               [r \in 1..NRows(arr) |->
                   /\ <<Last(arr.shape)>> = manifold.shape
                   /\ \A c \in 1..Last(arr.shape) :
                          Deviation(Row(arr, r - 1)[c]) <= atol.val])

\* regularize makes every coordinate canonical.
Regularized(arr) ==
    Array(arr.shape,
          [k \in 1..Len(arr.data) |-> IF arr.data[k] < 0 THEN 0 ELSE arr.data[k]])

\* projection and to_tangent bring every deviation to 0.
Projected(arr) ==
    Array(arr.shape,
          [k \in 1..Len(arr.data) |-> IF arr.data[k] > 0 THEN 0 ELSE arr.data[k]])

\* gs.atol, the default tolerance: below every deviation off the manifold.
gs_atol == PyFloat(0)

\* The tolerance a call runs with: the atol it was given, or the default.
AtolOf(kwargs) == IF "atol" \in DOMAIN kwargs THEN kwargs.atol ELSE gs_atol

\* A factor's contract methods, called with keyword arguments.
FactorCall(manifold, method_name, kwargs) ==
    CASE method_name = "belongs" ->
            RowsWithin(manifold, kwargs.point, AtolOf(kwargs))
      [] method_name = "is_tangent" ->
            IF kwargs.vector.shape # kwargs.base_point.shape THEN Error("ValueError")
            ELSE RowsWithin(manifold, kwargs.vector, AtolOf(kwargs))
      [] method_name = "regularize" -> Regularized(kwargs.point)
      [] method_name = "projection" ->
            IF manifold.projection THEN Projected(kwargs.point)
            ELSE Error("AttributeError")
      [] method_name = "to_tangent" ->
            IF kwargs.vector.shape # kwargs.base_point.shape THEN Error("ValueError")
            ELSE Projected(kwargs.vector)
      [] OTHER -> Error("AttributeError")

\* The shape of manifold.random_point(n_samples, bound).
SampleShape(manifold, n_samples) ==
    IF n_samples = 1 THEN manifold.shape ELSE <<n_samples>> \o manifold.shape

\* What manifold.random_point(n_samples, bound) can return: points of the
\* factor, canonical or not.
Samples(manifold, n_samples) ==
    LET s == SampleShape(manifold, n_samples)
    IN  {Array(s, [k \in 1..Prod(s) |-> c]) : c \in {-1, 0}}

\* ------------------------------------------------------------------ state
VARIABLES
    kind,                \* "none", "product" (ProductManifold), "nfold" (NFoldManifold)
    manifolds,           \* ProductManifold.manifolds
    dims,                \* ProductManifold.dims
    dim,                 \* Manifold.dim
    shape,               \* Manifold.shape
    default_point_type,  \* ProductManifold.default_point_type
    n_jobs,              \* ProductManifold.n_jobs
    base_manifold,       \* NFoldManifold.base_manifold
    base_shape,          \* NFoldManifold.base_shape
    n_copies,            \* NFoldManifold.n_copies
    pc,                  \* where the call in progress is
    func,                \* the method in progress
    args,                \* its arguments
    args_list,           \* _iterate_over_manifolds: per-factor array arguments
    float_args,          \* _iterate_over_manifolds: the unsplit arguments
    running,             \* factor calls in flight in the pool
    out,                 \* per-factor results collected so far
    result,              \* the value the call returned
    err,                 \* the exception the call raised
    calls,               \* history: the factor calls made by the call in progress
    faulty,              \* history: the factor whose call raised, 0 if none
    previous             \* history: the split convention of the call before, kept
                         \* until the next call takes its first step

object == <<kind, manifolds, dims, dim, shape, default_point_type, n_jobs,
            base_manifold, base_shape, n_copies>>
call == <<pc, func, args, args_list, float_args, running, out, result, err,
          calls, faulty>>
vars == <<object, call, previous>>

NoCall ==
    /\ func = "none"
    /\ args = <<>>
    /\ args_list = <<>>
    /\ float_args = <<>>
    /\ running = {}
    /\ out = <<>>
    /\ result = None
    /\ err = None
    /\ calls = <<>>
    /\ faulty = 0

\* No call is in progress any more.
ResetCall ==
    /\ func' = "none"
    /\ args' = <<>>
    /\ args_list' = <<>>
    /\ float_args' = <<>>
    /\ running' = {}
    /\ out' = <<>>
    /\ result' = None
    /\ err' = None
    /\ calls' = <<>>
    /\ faulty' = 0

Init ==
    /\ kind = "none"
    /\ manifolds = <<>>
    /\ dims = <<>>
    /\ dim = 0
    /\ shape = <<>>
    /\ default_point_type = "none"
    /\ n_jobs = 0
    /\ base_manifold = NoManifold
    /\ base_shape = <<>>
    /\ n_copies = 0
    /\ pc = "idle"
    /\ NoCall
    /\ previous = "none"

\* A call that ends at once: it returns `value`, or raises it if it is an error.
Finish(f, a, value) ==
    /\ func' = f
    /\ args' = a
    /\ IF IsError(value)
       THEN pc' = "raised" /\ err' = value /\ result' = None
       ELSE pc' = "done" /\ err' = None /\ result' = value

\* ----------------------------------------------------------- construction
\* geomstats.errors.check_parameter_accepted_values
CheckParameterAcceptedValues(param, accepted_values) == param \in accepted_values

\* geomstats.errors.check_integer
CheckInteger(n) == n > 0

PointTypes == {"vector", "matrix", "tensor"}
\* Worker counts: sequential, and parallel.
JobCounts == {1, MaxJobs}

\* The worker counts tried with a layout: the pool is used in vector layout
\* only, the other products are built with the default, n_jobs=1.
JobCountsOf(point_type) == IF point_type = "vector" THEN JobCounts ELSE {1}

\* ProductManifold.__init__: the shape of the product.
ProductShape(ms, point_type) ==
    IF point_type = "vector"
    THEN <<SumSeq([i \in 1..Len(ms) |-> ms[i].shape[1]])>>
    ELSE <<Len(ms)>> \o ms[1].shape

\* ProductManifold(manifolds, default_point_type=..., n_jobs=...)
ProductManifoldInit ==
    /\ pc = "idle" /\ kind = "none"
    /\ \E ms \in FactorLists, point_type \in PointTypes :
        \E jobs \in JobCountsOf(point_type) :
          IF ~CheckParameterAcceptedValues(point_type, {"vector", "matrix"})
          THEN /\ Finish("__init__", [default_point_type |-> point_type],
                         Error("ValueError"))
               /\ UNCHANGED <<object, args_list, float_args, running, out, calls,
                              faulty>>
          ELSE /\ kind' = "product"
               /\ manifolds' = ms
               /\ dims' = [i \in 1..Len(ms) |-> ms[i].dim]
               /\ dim' = SumSeq([i \in 1..Len(ms) |-> ms[i].dim])
               /\ shape' = ProductShape(ms, point_type)
               /\ default_point_type' = point_type
               /\ n_jobs' = jobs
               /\ UNCHANGED <<base_manifold, base_shape, n_copies, call>>
    /\ UNCHANGED previous

\* NFoldManifold.__init__: dim and shape of the power.
NFoldDim(base, n) == n * base.dim
NFoldShape(base, n) == <<n>> \o base.shape

\* NFoldManifold(base_manifold, n_copies)
NFoldManifoldInit ==
    /\ pc = "idle" /\ kind = "none"
    /\ \E base \in Bases, n \in 0..MaxFactors :
          IF ~CheckInteger(n)
          THEN /\ Finish("__init__", [n_copies |-> n], Error("ValueError"))
               /\ UNCHANGED <<object, args_list, float_args, running, out, calls,
                              faulty>>
          ELSE /\ kind' = "nfold"
               /\ dim' = NFoldDim(base, n)
               /\ shape' = NFoldShape(base, n)
               /\ base_manifold' = base
               /\ base_shape' = base.shape
               /\ n_copies' = n
               /\ UNCHANGED <<manifolds, dims, default_point_type, n_jobs, call>>
    /\ UNCHANGED previous

\* ------------------------------------------------------------- call inputs
\* Batch axes in front of a product's point: none, or one of MaxBatch points.
Batches == {<<>>, <<MaxBatch>>}

\* The arrays of shape s all 0 but for at most one coordinate, which is c.
PointsOfShape(s, c) ==
    {Array(s, [k \in 1..Prod(s) |-> IF k = j THEN c ELSE 0]) : j \in 0..Prod(s)}

\* A point of shape s that is on the manifold and canonical.
Zeros(s) == Array(s, [k \in 1..Prod(s) |-> 0])

\* The trailing shapes a caller gives a product's point: the product's own
\* shape and, in vector layout, the all-intrinsic and all-extrinsic widths.
PointShapes ==
    IF default_point_type = "vector"
    THEN {shape, <<SumSeq(dims)>>, <<SumSeq(dims) + Len(dims)>>}
    ELSE {shape}

\* The points a caller gives a method: on the product, or with one
\* coordinate c, off it (c = 1) or not canonical (c = -1); in a batch that
\* coordinate is in the last point.
Points(c) ==
    UNION {{point \in PointsOfShape(b \o s, c) :
               \A k \in 1..Prod(b \o s) :
                   point.data[k] # 0 => (k - 1) \div Prod(s) = Prod(b) - 1} :
           b \in Batches, s \in PointShapes}

\* Tolerances: floats, and an integer.
Atols == {PyFloat(0), PyFloat(1), PyInt(1)}

\* ------------------------------------------------ _iterate_over_manifolds
\* ProductRiemannianMetric.is_intrinsic(point): the point has dim coordinates.
IsIntrinsic(point) == Last(point.shape) = dim

\* cum_index
CumIndex(intrinsic) ==
    IF intrinsic THEN ButLast(gs_cumsum(dims))
    ELSE gs_cumsum([i \in 1..Len(dims) |-> dims[i] + 1])

\* The keys of args that go to gs.split and those that go to float_args.
SplitKeys(a) == {key \in DOMAIN a : ~IsFloat(a[key])}
FloatKeys(a) == DOMAIN a \ SplitKeys(a)

\* arguments
Arguments(a, intrinsic) ==
    [key \in SplitKeys(a) |-> gs_split(a[key], CumIndex(intrinsic))]

\* float_args
FloatArgs(a) == [key \in FloatKeys(a) |-> a[key]]

\* args_list
ArgsList(arguments) ==
    [j \in 1..Len(manifolds) |-> [key \in DOMAIN arguments |-> arguments[key][j]]]

\* {**args_list[i], **float_args}
Merge(f, g) ==
    [key \in DOMAIN f \cup DOMAIN g |-> IF key \in DOMAIN g THEN g[key] ELSE f[key]]

\* ProductManifold._get_method
GetMethod(manifold, method_name, metric_args) ==
    FactorCall(manifold, method_name, metric_args)

\* A call of a factor's method, as the history records it.
CallOf(i, method_name, kwargs) ==
    [factor |-> i, method |-> method_name, kwargs |-> kwargs]

\* _iterate_over_manifolds(func, args, intrinsic) up to the pool.
IterateOverManifolds(f, a, intrinsic) ==
    IF \E key \in SplitKeys(a) : ~IsArray(a[key]) \/ a[key].shape = <<>>
    THEN /\ Finish(f, a, Error("TypeError"))
         /\ UNCHANGED <<args_list, float_args, running, out, calls, faulty>>
    ELSE /\ pc' = "dispatch"
         /\ func' = f
         /\ args' = a
         /\ args_list' = ArgsList(Arguments(a, intrinsic))
         /\ float_args' = FloatArgs(a)
         /\ running' = {}
         /\ out' = [i \in 1..Len(manifolds) |-> None]
         /\ UNCHANGED <<result, err, calls, faulty>>

\* The pool hands the next delayed call to a free worker.
TaskStart ==
    /\ pc = "dispatch"
    /\ Len(calls) < Len(manifolds)
    /\ Cardinality(running) < n_jobs
    /\ LET i == Len(calls) + 1
       IN  /\ running' = running \cup {i}
           /\ calls' = Append(calls, CallOf(i, func, Merge(args_list[i], float_args)))
    /\ UNCHANGED <<object, pc, func, args, args_list, float_args, out, result, err,
                   faulty>>
    /\ previous' = "none"

\* Collect as a pool that keeps results in completion order would do it.
CollectInCompletionOrder(o, i, value) ==
    LET free == CHOOSE j \in 1..Len(o) :
                    o[j] = None /\ \A k \in 1..(j - 1) : o[k] # None
    IN  [o EXCEPT ![free] = value]

\* The pool stores the result of the i-th delayed call.
Collect(o, i, value) == [o EXCEPT ![i] = value]

\* The pool stops with the exception of factor i: nothing is returned.
RaiseFrom(i, e) ==
    /\ pc' = "raised"
    /\ err' = e
    /\ faulty' = i
    /\ running' = {}
    /\ out' = <<>>
    /\ UNCHANGED <<object, func, args, args_list, float_args, result, calls>>

\* A worker finishes the call of factor i.
TaskReturn(i) ==
    /\ pc = "dispatch"
    /\ i \in running
    /\ LET value == GetMethod(manifolds[i], func, calls[i].kwargs)
       IN  IF IsError(value) THEN RaiseFrom(i, value)
           ELSE /\ out' = Collect(out, i, value)
                /\ running' = running \ {i}
                /\ UNCHANGED <<object, pc, func, args, args_list, float_args,
                               result, err, calls, faulty>>
    /\ previous' = "none"

\* The method of factor i raises.
TaskRaise(i) ==
    /\ pc = "dispatch"
    /\ i \in running
    /\ RaiseFrom(i, Error("RuntimeError"))
    /\ previous' = "none"

\* gs.any(arr, axis=-1)
gs_any(arr) ==
    IF IsError(arr) THEN arr
    ELSE Array(ButLast(arr.shape),
               [r \in 1..NRows(arr) |->
                   \E c \in 1..Last(arr.shape) : Row(arr, r - 1)[c]])

\* RecombineVector reducing the per-factor booleans with any, not all.
RecombineVectorAny(f, o) ==
    IF f \in {"belongs", "is_tangent"} THEN gs_any(gs_stack(o, -1))
    ELSE gs_concatenate(o)

\* What a method does with the per-factor results in vector layout.
RecombineVector(f, o) ==
    IF f \in {"belongs", "is_tangent"} THEN gs_all(gs_stack(o, -1))
    ELSE gs_concatenate(o)

\* The pool has every result: _iterate_over_manifolds returns out and the
\* method recombines it.
PoolJoin ==
    /\ pc = "dispatch"
    /\ running = {}
    /\ Len(calls) = Len(manifolds)
    /\ Finish(func, args, RecombineVector(func, out))
    /\ UNCHANGED <<object, args_list, float_args, running, out, calls, faulty>>
    /\ previous' = "none"

\* ------------------------------------------- matrix layout: the factor loop
MatrixLoop(f, a) ==
    /\ pc' = "loop"
    /\ func' = f
    /\ args' = a
    /\ UNCHANGED <<args_list, float_args, running, out, result, err, calls, faulty>>

\* The arguments of factor i's call: arg[..., i, :] of every array.
MatrixKwargs(a, i) ==
    [key \in DOMAIN a |->
        IF IsArray(a[key]) /\ key # "atol" THEN TakeFactor(a[key], i - 1) ELSE a[key]]

\* One iteration of the list comprehension over enumerate(self.manifolds):
\* factor i is called with its slices, or the slicing or the factor raises.
LoopStep ==
    /\ pc = "loop"
    /\ Len(out) < Len(manifolds)
    /\ LET i == Len(out) + 1
           kwargs == MatrixKwargs(args, i)
           value == GetMethod(manifolds[i], func, kwargs)
       IN  IF \E key \in DOMAIN kwargs : IsError(kwargs[key])
           THEN /\ pc' = "raised"
                /\ err' = Error("IndexError")
                /\ UNCHANGED <<out, calls, faulty>>
           ELSE /\ calls' = Append(calls, CallOf(i, func, kwargs))
                /\ \/ /\ ~IsError(value)
                      /\ out' = Append(out, value)
                      /\ UNCHANGED <<pc, err, faulty>>
                   \/ /\ pc' = "raised"
                      /\ err' = IF IsError(value) THEN value ELSE Error("RuntimeError")
                      /\ faulty' = i
                      /\ UNCHANGED out
    /\ UNCHANGED <<object, func, args, args_list, float_args, running, result>>
    /\ previous' = "none"

\* What a method does with the per-factor results in matrix layout.
RecombineMatrix(f, o) ==
    CASE f \in {"belongs", "is_tangent"} -> gs_all(gs_stack(o, -1))
      [] f = "regularize" -> gs_stack(o, 1)
      [] OTHER -> gs_stack(o, -2)

\* The loop is over: the method recombines the per-factor results.
LoopJoin ==
    /\ pc = "loop"
    /\ Len(out) = Len(manifolds)
    /\ Finish(func, args, RecombineMatrix(func, out))
    /\ UNCHANGED <<object, args_list, float_args, running, out, calls, faulty>>
    /\ previous' = "none"

\* ------------------------------------------ ProductManifold: the methods
\* A product is built and no call is in progress.
ProductIdle == pc = "idle" /\ kind = "product"

\* Dispatched keeping the split convention of the call before, when there
\* was one, in place of asking about this call's point.
DispatchedCached(f, a, point) ==
    /\ IF default_point_type = "vector"
       THEN IterateOverManifolds(f, a, IF previous = "none" THEN IsIntrinsic(point)
                                       ELSE previous = "intrinsic")
       ELSE MatrixLoop(f, a)
    /\ UNCHANGED object

\* A method that dispatches in vector layout and loops in matrix layout;
\* `point` is the argument is_intrinsic is asked about.
Dispatched(f, a, point) ==
    /\ IF default_point_type = "vector"
       THEN IterateOverManifolds(f, a, IsIntrinsic(point))
       ELSE MatrixLoop(f, a)
    /\ UNCHANGED object

\* ProductManifold.belongs(point, atol)
Belongs ==
    /\ ProductIdle
    /\ \E point \in Points(1), atol \in Atols :
        Dispatched("belongs", [point |-> point, atol |-> atol], point)
    /\ UNCHANGED previous

\* ProductManifold.regularize(point)
Regularize ==
    /\ ProductIdle
    /\ \E point \in Points(-1) : Dispatched("regularize", [point |-> point], point)
    /\ UNCHANGED previous

\* ProductManifold.projection(point)
Projection ==
    /\ ProductIdle
    /\ \E point \in Points(1) : Dispatched("projection", [point |-> point], point)
    /\ UNCHANGED previous

\* ProductManifold.to_tangent(vector, base_point)
ToTangent ==
    /\ ProductIdle
    /\ \E vector \in Points(1) :
        LET base_point == Zeros(vector.shape)
        IN  Dispatched("to_tangent", [base_point |-> base_point, vector |-> vector],
                       base_point)
    /\ UNCHANGED previous

\* ProductManifold.is_tangent(vector, base_point, atol)
IsTangent ==
    /\ ProductIdle
    /\ \E vector \in Points(1), atol \in Atols :
        LET base_point == Zeros(vector.shape)
        IN  Dispatched("is_tangent",
                       [base_point |-> base_point, vector |-> vector, atol |-> atol],
                       base_point)
    /\ UNCHANGED previous

\* ProductManifold.random_point(n_samples, bound): the first line of either
\* branch; nothing is sampled yet.
RandomPoint ==
    /\ ProductIdle
    /\ \E n_samples \in 1..MaxBatch :
          /\ pc' = "sampling"
          /\ func' = "random_point"
          /\ args' = [n_samples |-> n_samples, bound |-> PyFloat(1)]
    /\ UNCHANGED <<object, args_list, float_args, running, out, result, err, calls,
                   faulty>>
    /\ UNCHANGED previous

\* NextData putting the new sample in front of data.
NextDataPrepend(data, samples) ==
    IF data = None THEN samples ELSE gs_concatenate(<<samples, data>>)

\* data after the sample of one more factor: the first sample, then
\* gs.concatenate([data, samples], axis=-1).
NextData(data, samples) ==
    IF data = None THEN samples ELSE gs_concatenate(<<data, samples>>)

\* The next factor is sampled: manifolds[0] first, then manifolds[1:] in
\* order (vector layout), or the next element of the list comprehension
\* (matrix layout).  In vector layout `result` holds data.
SampleStep ==
    /\ pc = "sampling"
    /\ Len(out) < Len(manifolds)
    /\ LET i == Len(out) + 1
       IN  \E samples \in Samples(manifolds[i], args.n_samples) :
              /\ calls' = Append(calls, CallOf(i, func, args))
              /\ out' = Append(out, samples)
              /\ result' = IF default_point_type = "vector"
                           THEN NextData(result, samples)
                           ELSE result
    /\ UNCHANGED <<object, pc, func, args, args_list, float_args, running, err,
                   faulty>>
    /\ previous' = "none"

\* Every factor is sampled: data is returned, or the samples are stacked.
SampleJoin ==
    /\ pc = "sampling"
    /\ Len(out) = Len(manifolds)
    /\ Finish(func, args,
              IF default_point_type = "vector" THEN result ELSE gs_stack(out, -2))
    /\ UNCHANGED <<object, args_list, float_args, running, out, calls, faulty>>
    /\ previous' = "none"

\* -------------------------------------------- NFoldManifold: the methods
\* A power is built and no call is in progress.
NFoldIdle == pc = "idle" /\ kind = "nfold"

\* The points a caller gives a power: one point or a batch, of shape
\* (n_copies, *base_shape).
NFoldPoints ==
    UNION {PointsOfShape(b \o shape, 1) : b \in {<<>>} \cup {<<k>> : k \in 1..MaxBatch}}

\* The number of draws random_point asks the base for.
NFoldDraws(n_samples) == n_samples * n_copies

\* NFoldSamples squeezing every axis of length 1, not the leading one only.
NFoldSamplesSqueezeAll(sample, n_samples) ==
    LET reshaped == gs_reshape(sample, <<n_samples, n_copies>> \o base_shape)
    IN  IF n_samples > 1 THEN reshaped ELSE gs_squeeze(reshaped)

\* NFoldManifold.random_point after the base call: reshape, and drop the
\* leading axis of a single sample.
NFoldSamples(sample, n_samples) ==
    LET reshaped == gs_reshape(sample, <<n_samples, n_copies>> \o base_shape)
    IN  IF n_samples > 1 THEN reshaped ELSE gs_squeeze0(reshaped)

\* NFoldManifold.random_point(n_samples, bound)
NFoldRandomPoint ==
    /\ NFoldIdle
    /\ \E n_samples \in 1..MaxBatch :
          \E sample \in Samples(base_manifold, NFoldDraws(n_samples)) :
              /\ Finish("random_point",
                        [n_samples |-> n_samples, bound |-> PyFloat(1)],
                        NFoldSamples(sample, n_samples))
              /\ calls' = <<CallOf(0, "random_point",
                                   [n_samples |-> NFoldDraws(n_samples),
                                    bound |-> PyFloat(1)])>>
    /\ UNCHANGED <<object, args_list, float_args, running, out, faulty>>
    /\ UNCHANGED previous

\* HasProjection without the hasattr test.
AssumeProjection(manifold) == TRUE

\* hasattr(self.base_manifold, "projection")
HasProjection(manifold) == manifold.projection

\* NFoldManifold.projection when the base has a projection.
NFoldProjected(point) ==
    LET point_ == gs_reshape(point, <<-1>> \o base_shape)
        projected == GetMethod(base_manifold, "projection", [point |-> point_])
        reshaped == gs_reshape(projected, <<-1, n_copies>> \o base_shape)
    IN  gs_squeeze(reshaped)

\* NFoldManifold.projection(point)
NFoldProjection ==
    /\ NFoldIdle
    /\ \E point \in NFoldPoints :
          IF HasProjection(base_manifold)
          THEN /\ Finish("projection", [point |-> point], NFoldProjected(point))
               /\ calls' = <<CallOf(0, "projection",
                                    [point |-> gs_reshape(point, <<-1>> \o base_shape)])>>
          ELSE /\ Finish("projection", [point |-> point], Error("NotImplementedError"))
               /\ calls' = <<>>
    /\ UNCHANGED <<object, args_list, float_args, running, out, faulty>>
    /\ UNCHANGED previous

\* point reshaped to a batch of base points: (-1, *base_shape).
BaseBatch(point) == gs_reshape(point, <<-1>> \o base_shape)

\* NFoldManifold.belongs: the keyword arguments of the base call.
NFoldBelongsKwargs(point, atol) == [point |-> BaseBatch(point), atol |-> atol]

\* NFoldManifold.belongs after the base call.
NFoldBelongsResult(each_belongs) ==
    LET reshaped == gs_reshape(each_belongs, <<-1, n_copies>>)
    IN  gs_squeeze(gs_all(reshaped))

\* NFoldManifold.belongs(point, atol)
NFoldBelongs ==
    /\ NFoldIdle
    /\ \E point \in NFoldPoints, atol \in Atols :
          LET kwargs == NFoldBelongsKwargs(point, atol)
          IN  /\ Finish("belongs", [point |-> point, atol |-> atol],
                        NFoldBelongsResult(FactorCall(base_manifold, "belongs", kwargs)))
              /\ calls' = <<CallOf(0, "belongs", kwargs)>>
    /\ UNCHANGED <<object, args_list, float_args, running, out, faulty>>
    /\ UNCHANGED previous

\* The base points a caller gives with a vector: one for all the vectors of
\* the batch, or one per vector.
NFoldBasePoints(vector) == {Zeros(shape), Zeros(vector.shape)}

\* NFoldManifold.is_tangent and to_tangent: the keyword arguments of the
\* base call; the tolerance is not among them.
NFoldTangentKwargs(vector, base_point) ==
    LET both == gs_broadcast_arrays(vector, base_point)
    IN  [vector |-> BaseBatch(both[1]), base_point |-> BaseBatch(both[2])]

\* NFoldManifold.is_tangent after the base call.
NFoldIsTangentResult(each_tangent) ==
    LET reshaped == gs_reshape(each_tangent, <<-1, n_copies>>)
    IN  gs_all(reshaped)

\* NFoldManifold.is_tangent(vector, base_point, atol)
NFoldIsTangent ==
    /\ NFoldIdle
    /\ \E vector \in NFoldPoints, atol \in Atols :
          \E base_point \in NFoldBasePoints(vector) :
              LET kwargs == NFoldTangentKwargs(vector, base_point)
              IN  /\ Finish("is_tangent",
                            [vector |-> vector, base_point |-> base_point,
                             atol |-> atol],
                            NFoldIsTangentResult(
                                FactorCall(base_manifold, "is_tangent", kwargs)))
                  /\ calls' = <<CallOf(0, "is_tangent", kwargs)>>
    /\ UNCHANGED <<object, args_list, float_args, running, out, faulty>>
    /\ UNCHANGED previous

\* NFoldManifold.to_tangent after the base call.
NFoldToTangentResult(each_tangent) ==
    LET reshaped == gs_reshape(each_tangent, <<-1, n_copies>> \o base_shape)
    IN  gs_squeeze(reshaped)

\* NFoldManifold.to_tangent(vector, base_point)
NFoldToTangent ==
    /\ NFoldIdle
    /\ \E vector \in NFoldPoints :
          \E base_point \in NFoldBasePoints(vector) :
              LET kwargs == NFoldTangentKwargs(vector, base_point)
              IN  /\ Finish("to_tangent",
                            [vector |-> vector, base_point |-> base_point],
                            NFoldToTangentResult(
                                FactorCall(base_manifold, "to_tangent", kwargs)))
                  /\ calls' = <<CallOf(0, "to_tangent", kwargs)>>
    /\ UNCHANGED <<object, args_list, float_args, running, out, faulty>>
    /\ UNCHANGED previous

\* The methods that split their arguments between the factors.
DispatchedMethods == {"belongs", "regularize", "projection", "to_tangent", "is_tangent"}

VectorProduct == kind = "product" /\ default_point_type = "vector"

\* The argument of the call in progress that is_intrinsic is asked about.
ConventionPoint == IF "base_point" \in DOMAIN args THEN args.base_point ELSE args.point

\* The split convention of the call in progress, "none" where nothing is
\* split by a convention.
Convention ==
    IF VectorProduct /\ func \in DispatchedMethods
    THEN IF IsIntrinsic(ConventionPoint) THEN "intrinsic" ELSE "extrinsic"
    ELSE "none"

\* The caller takes the result or the exception; the composite is idle again.
Return ==
    /\ pc \in {"done", "raised"}
    /\ pc' = "idle"
    /\ ResetCall
    /\ UNCHANGED object
    /\ previous' = Convention

Next ==
    \/ ProductManifoldInit
    \/ NFoldManifoldInit
    \/ Belongs
    \/ Regularize
    \/ Projection
    \/ ToTangent
    \/ IsTangent
    \/ RandomPoint
    \/ TaskStart
    \/ \E i \in 1..MaxFactors : TaskReturn(i)
    \/ \E i \in 1..MaxFactors : TaskRaise(i)
    \/ PoolJoin
    \/ LoopStep
    \/ LoopJoin
    \/ SampleStep
    \/ SampleJoin
    \/ NFoldRandomPoint
    \/ NFoldProjection
    \/ NFoldBelongs
    \/ NFoldIsTangent
    \/ NFoldToTangent
    \/ Return

Spec == Init /\ [][Next]_vars

\* ------------------------------------------------------------------ claims
MatrixProduct == kind = "product" /\ default_point_type = "matrix"

\* A dispatched call of a vector-layout product has reached the pool.
InPool == VectorProduct /\ func \in DispatchedMethods /\ pc \in {"dispatch", "done"}

\* The per-factor results of the call in progress computed one factor after
\* the other from the call's arguments alone.
SequentialResults ==
    LET per == ArgsList(Arguments(args, IsIntrinsic(ConventionPoint)))
    IN  [i \in 1..Len(manifolds) |->
            FactorCall(manifolds[i], func, Merge(per[i], FloatArgs(args)))]

\* C1: the sequence _iterate_over_manifolds returns has one result per
\* factor, position i holding the result of factor i, whatever the worker
\* count and the order the calls complete in: every result collected so far
\* is at its factor's position, and the returned sequence is the one a
\* sequential run over the factors gives.
C1_ResultsInFactorOrder ==
    InPool =>
        /\ Len(out) = Len(manifolds)
        /\ \A i \in 1..Len(out) : out[i] # None => out[i] = SequentialResults[i]
        /\ pc = "done" => out = SequentialResults

\* C1 witness: two workers, and the second factor's call has completed
\* before the first one's, with a different result.
C1_Witness ==
    /\ InPool /\ pc = "dispatch" /\ n_jobs > 1
    /\ Len(manifolds) = 2
    /\ out[1] = None /\ out[2] # None
    /\ running = {1}
    /\ SequentialResults[1] # SequentialResults[2]

\* C2: when the call of a factor raises, the composite call fails with a
\* FactorOperationError that carries the (0-based) index of that factor,
\* the operation name and the underlying error, and returns nothing.
C2_FactorOperationError ==
    (kind = "product" /\ pc = "raised" /\ faulty # 0) =>
        /\ result = None
        /\ err.exc = "FactorOperationError"
        /\ {"index", "operation", "cause"} \subseteq DOMAIN err
        /\ err.index = faulty - 1
        /\ err.operation = func

\* C3: in vector layout, when the point has the product's width, every
\* factor is handed slices of its own native width, and the slices of an
\* argument are its columns in factor order, none left over.
C3_SlicesHaveNativeWidth ==
    (InPool /\ Last(ConventionPoint.shape) = shape[1]) =>
        \A key \in SplitKeys(args) :
            /\ \A i \in 1..Len(manifolds) :
                   Last(args_list[i][key].shape) = manifolds[i].shape[1]
            /\ gs_concatenate([i \in 1..Len(manifolds) |-> args_list[i][key]])
                   = args[key]

\* C4: no matrix-layout product exists whose factors differ in shape.
C4_MatrixShapesChecked ==
    MatrixProduct =>
        \A i \in 1..Len(manifolds) : manifolds[i].shape = manifolds[1].shape

\* The keyword arguments factor i is called with by the call in progress.
FactorKwargs(i) ==
    IF default_point_type = "vector" THEN Merge(args_list[i], float_args)
    ELSE MatrixKwargs(args, i)

\* C5: belongs and is_tangent of a product, in both layouts, return one
\* boolean per batch element, true iff every factor's same operation on that
\* factor's slice is true for the element.
C5_MembershipIsConjunction ==
    (kind = "product" /\ pc = "done" /\ func \in {"belongs", "is_tangent"}) =>
        LET per == [i \in 1..Len(manifolds) |->
                       FactorCall(manifolds[i], func, FactorKwargs(i))]
            batch == IF default_point_type = "vector"
                     THEN ButLast(ConventionPoint.shape)
                     ELSE SubSeq(ConventionPoint.shape, 1,
                                 Len(ConventionPoint.shape) - 2)
        IN  /\ result.shape = batch
            /\ Len(result.data) = Prod(batch)
            /\ \A b \in 1..Prod(batch) :
                   result.data[b] = \A i \in 1..Len(manifolds) : per[i].data[b]

\* C5 witness: a call of two factors has returned; for its first batch
\* element one factor's slice complies, the other's does not, and the
\* product reports false.
C5_Witness ==
    /\ kind = "product" /\ pc = "done" /\ func \in {"belongs", "is_tangent"}
    /\ Len(manifolds) = 2
    /\ \E i, j \in 1..2 : out[i].data[1] /\ ~out[j].data[1]
    /\ ~result.data[1]

\* C6: a product has dim = sum of its factors' dim; its shape is (sum of the
\* factors' trailing widths,) in vector layout and (n_factors,) + the shape
\* common to all factors in matrix layout; a power has dim = n * base.dim
\* and shape = (n,) + base.shape.
C6_DimAndShape ==
    /\ kind = "product" =>
          /\ dim = SumSeq([i \in 1..Len(manifolds) |-> manifolds[i].dim])
          /\ default_point_type = "vector" =>
                 shape = <<SumSeq([i \in 1..Len(manifolds) |->
                                      Last(manifolds[i].shape)])>>
          /\ default_point_type = "matrix" =>
                 \A i \in 1..Len(manifolds) :
                     shape = <<Len(manifolds)>> \o manifolds[i].shape
    /\ kind = "nfold" =>
          /\ dim = n_copies * base_manifold.dim
          /\ shape = <<n_copies>> \o base_manifold.shape

\* C7: in a dispatched call every numeric scalar argument, float or integer,
\* is kept out of the split and reaches every factor call unchanged, and
\* every array argument is split into one slice per factor.
C7_ScalarsBroadcast ==
    (VectorProduct /\ func \in DispatchedMethods /\ pc # "idle") =>
        /\ \A key \in DOMAIN args :
               args[key].type \in {"float", "int"} =>
                   /\ key \in DOMAIN float_args
                   /\ float_args[key] = args[key]
                   /\ \A c \in 1..Len(calls) : calls[c].kwargs[key] = args[key]
        /\ \A key \in DOMAIN args :
               IsArray(args[key]) =>
                   /\ Len(args_list) = Len(manifolds)
                   /\ \A i \in 1..Len(args_list) : key \in DOMAIN args_list[i]

\* C8: random_point of a power asks the base once, for n_samples * n_copies
\* draws, and returns shape (n,) + S for one sample and (n_samples, n) + S
\* for more.
C8_PowerSampleShape ==
    (kind = "nfold" /\ func = "random_point" /\ pc # "idle") =>
        /\ pc = "done"
        /\ Len(calls) = 1
        /\ calls[1].method = "random_point"
        /\ calls[1].kwargs.n_samples = args.n_samples * n_copies
        /\ result.shape = IF args.n_samples = 1
                          THEN <<n_copies>> \o base_manifold.shape
                          ELSE <<args.n_samples, n_copies>> \o base_manifold.shape

\* C8 witness: one sample of a power, and several samples of a power of
\* several copies, have been returned.
C8_Witness ==
    /\ kind = "nfold" /\ func = "random_point" /\ pc = "done"
    /\ args.n_samples > 1 /\ n_copies > 1
    /\ result.shape = <<args.n_samples, n_copies>> \o base_shape

\* C9: projection of a power whose base has no projection fails with
\* NotImplementedError (the spec's NotSupportedError), no call made to the
\* base and nothing returned; with a projection, the base is called once
\* with the point and what it returns is returned.
C9_PowerProjection ==
    (kind = "nfold" /\ func = "projection" /\ pc # "idle") =>
        IF base_manifold.projection
        THEN /\ pc = "done"
             /\ Len(calls) = 1
             /\ calls[1].method = "projection"
             /\ calls[1].kwargs.point.data = args.point.data
             /\ result.data =
                    FactorCall(base_manifold, "projection", calls[1].kwargs).data
        ELSE /\ pc = "raised"
             /\ err = Error("NotImplementedError")
             /\ calls = <<>>
             /\ result = None

\* C9 witness: projection on a power of a base without projection has
\* raised.
C9_Witness ==
    /\ kind = "nfold" /\ func = "projection" /\ pc = "raised"
    /\ ~base_manifold.projection

\* C10: random_point of a product samples the factors one after the other in
\* construction order, each once and with the call's n_samples and bound,
\* never in the pool, and factor i's sample is at position i of the result.
C10_SequentialSampling ==
    (kind = "product" /\ func = "random_point") =>
        /\ pc \in {"sampling", "done", "raised"}
        /\ running = {} /\ args_list = <<>>
        /\ Len(calls) <= Len(manifolds)
        /\ \A i \in 1..Len(calls) : calls[i] = CallOf(i, "random_point", args)
        /\ pc = "done" =>
              /\ Len(calls) = Len(manifolds)
              /\ \A i \in 1..Len(manifolds) :
                     out[i] \in Samples(manifolds[i], args.n_samples)
              /\ IF default_point_type = "vector"
                 THEN result = gs_concatenate(out)
                 ELSE \A i \in 1..Len(manifolds) : TakeFactor(result, i - 1) = out[i]

\* C10 witness: a vector-layout product of two factors of different widths
\* has returned a batch of samples that differ between the factors.
C10_Witness ==
    /\ VectorProduct /\ func = "random_point" /\ pc = "done"
    /\ Len(manifolds) = 2
    /\ manifolds[1].shape # manifolds[2].shape
    /\ args.n_samples > 1
    /\ out[1].data[1] # out[2].data[1]

\* The array argument a matrix-layout call recombines its results for.
RecombinedInput == IF func = "to_tangent" THEN args.vector ELSE args.point

\* C13: in matrix layout regularize, projection and to_tangent return an
\* array of the shape of their input, (..., n_factors, width), with factor
\* i's result at index i of the second-to-last axis, for a batched and for
\* an unbatched input.
C13_MatrixResultShape ==
    (MatrixProduct /\ func \in {"regularize", "projection", "to_tangent"}
                   /\ pc = "done") =>
        /\ result.shape = RecombinedInput.shape
        /\ \A i \in 1..Len(manifolds) : TakeFactor(result, i - 1) = out[i]

\* The number of points in the batch a power's call in progress was given.
BatchSize ==
    LET given == IF "vector" \in DOMAIN args THEN args.vector ELSE args.point
    IN  Prod(given.shape) \div Prod(shape)

\* C14: to_tangent and projection of a power return, for a batch of k
\* points, an array of shape (k, n_copies) + base_shape when k > 1 and
\* (n_copies,) + base_shape when k = 1: the copy axis and the base axes are
\* kept whatever their lengths, a length of 1 included.
C14_PowerResultShape ==
    (kind = "nfold" /\ func \in {"to_tangent", "projection"} /\ pc = "done") =>
        result.shape = IF BatchSize > 1
                       THEN <<BatchSize, n_copies>> \o base_shape
                       ELSE <<n_copies>> \o base_shape

\* The array a power's belongs or is_tangent call in progress tests.
Tested == IF func = "is_tangent" THEN args.vector ELSE args.point

\* What belongs and is_tangent of the power return for the batch x.
BelongsOf(x) ==
    NFoldBelongsResult(FactorCall(base_manifold, "belongs",
                                  NFoldBelongsKwargs(x, gs_atol)))
IsTangentOf(x) ==
    NFoldIsTangentResult(FactorCall(base_manifold, "is_tangent",
                                    NFoldTangentKwargs(x, Zeros(x.shape))))

\* The base call's answers are combined per batch element: element j is
\* true iff copies j*n .. j*n+n-1 all are.
CombinedPerElement ==
    LET each == FactorCall(base_manifold, func, calls[1].kwargs)
    IN  /\ Len(result.data) = BatchSize
        /\ \A j \in 0..(BatchSize - 1) :
               result.data[j + 1] =
                   \A c \in 1..n_copies : each.data[j * n_copies + c]

\* C15: belongs and is_tangent of a power make exactly one call to the base,
\* return for each batch element true iff the base operation is true for all
\* its n_copies copies, and return results of the same shape for the same
\* batch.
C15_PowerMembership ==
    (kind = "nfold" /\ func \in {"belongs", "is_tangent"} /\ pc = "done") =>
        /\ Len(calls) = 1
        /\ calls[1].method = func
        /\ CombinedPerElement
        /\ BelongsOf(Tested).shape = IsTangentOf(Tested).shape

\* C16: the atol given to belongs or is_tangent of a composite, product or
\* power, is the tolerance every call to a factor or to the base is made
\* with: each recorded call carries the caller's atol unchanged.
C16_AtolReachesFactors ==
    (kind # "none" /\ func \in {"belongs", "is_tangent"}) =>
        \A i \in 1..Len(calls) :
            /\ "atol" \in DOMAIN calls[i].kwargs
            /\ calls[i].kwargs.atol = args.atol

\* What method f of the product returns, or raises, for the arguments a: the
\* factors called one after the other and their results recombined.
ProductCall(f, a) ==
    LET n == Len(manifolds)
        point == IF "base_point" \in DOMAIN a THEN a.base_point ELSE a.point
    IN  IF default_point_type = "vector"
        THEN IF \E key \in SplitKeys(a) : ~IsArray(a[key]) \/ a[key].shape = <<>>
             THEN Error("TypeError")
             ELSE LET per == ArgsList(Arguments(a, IsIntrinsic(point)))
                      o == [i \in 1..n |->
                               GetMethod(manifolds[i], f, Merge(per[i], FloatArgs(a)))]
                  IN  IF FirstError(o) # None THEN FirstError(o)
                      ELSE RecombineVector(f, o)
        ELSE LET kw == [i \in 1..n |-> MatrixKwargs(a, i)]
             IN  IF \E i \in 1..n : \E key \in DOMAIN a : IsError(kw[i][key])
                 THEN Error("IndexError")
                 ELSE LET o == [i \in 1..n |-> GetMethod(manifolds[i], f, kw[i])]
                      IN  IF FirstError(o) # None THEN FirstError(o)
                          ELSE RecombineMatrix(f, o)

\* Every entry of a boolean result is true.
AllTrue(b) == IsArray(b) /\ \A k \in 1..Len(b.data) : b.data[k]

\* C11: for a point p returned by random_point of a product, one sample or
\* a batch, in either layout, belongs(regularize(p)) is true and
\* regularize(regularize(p)) = regularize(p); the factors' regularize is
\* idempotent and keeps their points in the factor.
C11_RegularizeRoundTrip ==
    (kind = "product" /\ func = "random_point" /\ pc = "done") =>
        LET r == ProductCall("regularize", [point |-> result])
        IN  /\ IsArray(r)
            /\ AllTrue(ProductCall("belongs", [point |-> r, atol |-> gs_atol]))
            /\ ProductCall("regularize", [point |-> r]) = r

\* The first coordinate of factor i's slice under the convention of the
\* point the call in progress is about: factor j takes dims[j] coordinates
\* of an intrinsic point and dims[j] + 1 of an extrinsic one.
OwnOffset(i) ==
    SumSeq([j \in 1..(i - 1) |->
               IF IsIntrinsic(ConventionPoint) THEN dims[j] ELSE dims[j] + 1])

\* The slices a vector-layout call hands to the factors are cut at the
\* boundaries of the call's own point.
OwnConvention ==
    (VectorProduct /\ func \in DispatchedMethods /\ pc = "dispatch") =>
        \A i \in 1..Len(manifolds) : \A key \in SplitKeys(args) :
            args_list[i][key] = SliceLast(args[key], OwnOffset(i), OwnOffset(i + 1))

\* C12: once built, a composite's factor list, dims, dim, shape, layout tag
\* and worker count (or base space and repeat count) are changed by no
\* operation, and every vector-layout call is split by the convention of its
\* own point, whatever the convention of the call before.
C12_ImmutableAndPerCallConvention ==
    /\ [][kind # "none" => object' = object]_vars
    /\ []OwnConvention

\* C12 witness: a call with an intrinsic point is being dispatched on a
\* product of two factors right after a call with an extrinsic point, and
\* the first factor's slice has the intrinsic width.
C12_Witness ==
    /\ VectorProduct /\ func \in DispatchedMethods /\ pc = "dispatch"
    /\ Len(manifolds) = 2
    /\ previous = "extrinsic"
    /\ Convention = "intrinsic"
    /\ Last(args_list[1][CHOOSE key \in SplitKeys(args) : TRUE].shape) = dims[1]

=============================================================================
